---------------------------- MODULE Spec2Model ----------------------------
(***************************************************************************)
(* Model of the KiCad project exporter:                                    *)
(*   plugin/kicad_parser.py       S-expression tokenizer, parser, queries  *)
(*   plugin/project_collector.py  ProjectCollector (three phases, mapping) *)
(*   plugin/zip_exporter.py       ZipExporter.create_zip                   *)
(*                                                                         *)
(* Text is a sequence of one-character strings, a token a sequence of     *)
(* characters.  Indices are the code's 0-based indices; text[k] of the     *)
(* code is text[k + 1] here.                                               *)
(***************************************************************************)
EXTENDS Integers, Sequences, FiniteSets, TLC

VARIABLES
    text,      \* _tokenize: the input text
    i,         \* _tokenize: the scan position
    tokens,    \* _tokenize: the token list; the input of _parse_tokens
    steps,     \* number of iterations of _tokenize's outer loop so far
    ppc,       \* position in parse_kicad and its caller: "tokenize", "parse", "parsed", "found"
    tree,      \* parse_kicad: the result of _parse_tokens(tokens, 0)
    endpos,    \* the position _parse_tokens(tokens, 0) returned
    findName,  \* find_elements: element_name
    found,     \* find_elements: results
    \* the filesystem and the inputs of ProjectCollector
    pcb_path,   \* self.pcb_path, as handed over by the host
    files,      \* canonical paths of the regular files that exist
    content,    \* schematic file -> the Sheetfile values of its sheet elements
    unreadable, \* schematic files whose read_text raises
    libTable,   \* sym-lib-table: [exists, readable, libs]
    \* ProjectCollector
    collected_files,  \* self.collected_files
    external_files,   \* self.external_files: path -> display name
    warnings,         \* self.warnings
    visited,          \* the visited set of one hierarchy walk
    stack,            \* call stack of _parse_schematic_sheets, innermost last
    libQueue,         \* lib elements _collect_symbol_libraries has yet to handle
    pc,               \* position in collect_all
    \* history of the run (not program state)
    readLog,    \* canonical paths read and parsed, in order
    skips,      \* calls of _parse_schematic_sheets that returned at the visited check
    phaseLog,   \* the phases that have completed
    afterCore,  \* [collected, warnings] when the core-files phase returned
    afterHier,  \* [collected, warnings] when the hierarchy phase returned
    lastLib,    \* the lib element handled last and the state before it
    again,      \* the phase the caller has run a second time, or "none"
    first,      \* [collected, external, warnings] when its first run returned
    \* ZipExporter.create_zip and its caller
    zfiles,     \* files.items(), in order
    zpos,       \* the entry the loop is at
    zhandle,    \* the archive's file handle: "none", "open", "closed"
    zarchive,   \* archive paths written
    zerror,     \* the exception raised, or "none"
    zmessage,   \* the message box Run shows
    zpc         \* position in create_zip and Run

pvars == <<text, i, tokens, steps, ppc, tree, endpos, findName, found>>

envvars == <<pcb_path, files, content, unreadable, libTable>>

cvars == <<collected_files, external_files, warnings, visited, stack, libQueue, pc>>

hvars == <<readLog, skips, phaseLog, afterCore, afterHier, lastLib>>

rvars == <<again, first>>

zvars == <<zfiles, zpos, zhandle, zarchive, zerror, zmessage, zpc>>

vars == <<pvars, envvars, cvars, hvars, zvars, rvars>>

(***************************************************************************)
(* Bounds and inputs of the parser specifications                          *)
(***************************************************************************)
MaxLen == 4

MaxTokens == 7

\* Sheet elements in all schematics together, and lib elements in the table.
MaxSheets == 3

MaxLibs == 2

\* Entries of the mapping handed to create_zip.
MaxFiles == 3

Chars == {"(", ")", "\"", "\\", " ", "a"}

RECURSIVE SeqsUpTo(_, _)
SeqsUpTo(S, n) ==
    IF n = 0 THEN {<<>>}
    ELSE LET shorter == SeqsUpTo(S, n - 1)
         IN  shorter \cup {Append(s, c) : s \in {t \in shorter : Len(t) = n - 1}, c \in S}

\* (a (b "c\"d"))
ExampleText ==
    <<"(", "a", " ", "(", "b", " ", "\"", "c", "\\", "\"", "d", "\"", ")", ")">>

\* "a\\" b   (an escaped backslash closes the string)   and   "\\\""
ExampleEscapes ==
    { <<"\"", "a", "\\", "\\", "\"", " ", "a">>,
      <<"\"", "\\", "\\", "\\", "\"", "\"">>,
      <<"(", "a", " ", "\"", "\\", "\"">> }

Texts == SeqsUpTo(Chars, MaxLen) \cup {ExampleText} \cup ExampleEscapes

(***************************************************************************)
(* kicad_parser.py                                                         *)
(***************************************************************************)
Whitespace == {" ", "\t", "\n", "\r"}

AtomStop == Whitespace \cup {"(", ")", "\""}

Min(a, b) == IF a < b THEN a ELSE b

\* Python's t[a:b] for 0 <= a: both ends are clamped to the length.
Slice(t, a, b) == SubSeq(t, a + 1, Min(b, Len(t)))

\* The inner loop of a quoted string: from j, the index where the scan stops.
RECURSIVE ScanQuoted(_, _)
ScanQuoted(t, j) ==
    IF j < Len(t)
    THEN IF t[j + 1] = "\\" THEN ScanQuoted(t, j + 2)
         ELSE IF t[j + 1] = "\"" THEN j
         ELSE ScanQuoted(t, j + 1)
    ELSE j

\* The inner loop of an unquoted atom.
RECURSIVE ScanAtom(_, _)
ScanAtom(t, j) ==
    IF j < Len(t) /\ t[j + 1] \notin AtomStop THEN ScanAtom(t, j + 1) ELSE j

\* One iteration of the outer loop of _tokenize at position k:
\* the token it appends (<<>> for none) and the next position.
TokenizeAt(t, k) ==
    LET char == t[k + 1]
    IN  IF char \in Whitespace THEN [tok |-> <<>>, next |-> k + 1]
        ELSE IF char = "(" THEN [tok |-> <<"(">>, next |-> k + 1]
        ELSE IF char = ")" THEN [tok |-> <<")">>, next |-> k + 1]
        ELSE IF char = "\""
        THEN LET j == ScanQuoted(t, k + 1)
             IN  [tok |-> Slice(t, k, j + 1), next |-> j + 1]
        ELSE LET j == ScanAtom(t, k)
             IN  [tok |-> Slice(t, k, j), next |-> j]

AtomNode(v) == [kind |-> "Atom", val |-> v]

ListNode(items) == [kind |-> "List", items |-> items]

StartsWith(s, p) == Len(s) >= Len(p) /\ SubSeq(s, 1, Len(p)) = p

EndsWith(s, p) == Len(s) >= Len(p) /\ SubSeq(s, Len(s) - Len(p) + 1, Len(s)) = p

\* str.replace(old, new) for a two-character old and a one-character new:
\* left to right, non-overlapping.
RECURSIVE Replace2(_, _, _)
Replace2(s, old, new) ==
    IF Len(s) < 2 THEN s
    ELSE IF SubSeq(s, 1, 2) = old
         THEN <<new>> \o Replace2(SubSeq(s, 3, Len(s)), old, new)
         ELSE <<s[1]>> \o Replace2(Tail(s), old, new)

\* token[1:-1], then the two replacements, in the code's order.
Unquote(token) ==
    LET value == SubSeq(token, 2, Len(token) - 1)
        v1 == Replace2(value, <<"\\", "\"">>, "\"")
    IN  Replace2(v1, <<"\\", "\\">>, "\\")

\* The atom branch of _parse_tokens.
AtomValue(token) ==
    IF StartsWith(token, <<"\"">>) /\ EndsWith(token, <<"\"">>)
    THEN Unquote(token)
    ELSE token

RECURSIVE ParseTokens(_, _), ParseList(_, _, _)
\* Mutant of ParseTokens: a stray ")" is not stepped over.
ParseTokensNoAdvance(toks, pos) ==
    IF pos >= Len(toks) THEN [result |-> ListNode(<<>>), pos |-> pos]
    ELSE LET token == toks[pos + 1]
         IN  IF token = <<"(">> THEN ParseList(toks, pos + 1, <<>>)
             ELSE IF token = <<")">> THEN [result |-> ListNode(<<>>), pos |-> pos]
             ELSE [result |-> AtomNode(AtomValue(token)), pos |-> pos + 1]

\* _parse_tokens(tokens, pos): [result, pos]
ParseTokens(toks, pos) ==
    IF pos >= Len(toks) THEN [result |-> ListNode(<<>>), pos |-> pos]
    ELSE LET token == toks[pos + 1]
         IN  IF token = <<"(">> THEN ParseList(toks, pos + 1, <<>>)
             ELSE IF token = <<")">> THEN [result |-> ListNode(<<>>), pos |-> pos + 1]
             ELSE [result |-> AtomNode(AtomValue(token)), pos |-> pos + 1]

\* The while loop of the list branch, with the items parsed so far.
ParseList(toks, pos, acc) ==
    IF pos < Len(toks) /\ toks[pos + 1] # <<")">>
    THEN LET r == ParseTokens(toks, pos)
         IN  ParseList(toks, r.pos, Append(acc, r.result))
    ELSE [result |-> ListNode(acc),
          pos |-> IF pos < Len(toks) THEN pos + 1 ELSE pos]

IsList(node) == node.kind = "List"

\* node[0] == element_name
HeadIs(node, name) ==
    /\ Len(node.items) > 0
    /\ node.items[1].kind = "Atom"
    /\ node.items[1].val = name

RECURSIVE FindElementsRecursive(_, _, _), FindInChildren(_, _, _, _)
\* Mutant of FindElementsRecursive: a matching node is not searched further.
FindElementsNoDescent(node, name, results) ==
    IF ~IsList(node) THEN results
    ELSE IF HeadIs(node, name) THEN Append(results, node)
    ELSE FindInChildren(node.items, 1, name, results)

\* _find_elements_recursive(node, element_name, results): the new results
FindElementsRecursive(node, name, results) ==
    IF ~IsList(node) THEN results
    ELSE LET r1 == IF HeadIs(node, name) THEN Append(results, node) ELSE results
         IN  FindInChildren(node.items, 1, name, r1)

\* for child in node: ...
FindInChildren(items, k, name, results) ==
    IF k > Len(items) THEN results
    ELSE LET child == items[k]
             r == IF IsList(child) THEN FindElementsRecursive(child, name, results)
                  ELSE results
         IN  FindInChildren(items, k + 1, name, r)

find_elements(t, name) == FindElementsRecursive(t, name, <<>>)

NoTree == [kind |-> "None"]

(***************************************************************************)
(* Paths.  A path is the sequence of its parts as pathlib keeps them: an   *)
(* absolute path starts with the part "/".  Comparison, parent, name and   *)
(* relative_to are lexical; exists and resolve ask the filesystem.         *)
(***************************************************************************)
IsAbsolute(p) == p # <<>> /\ p[1] = "/"

\* a / b
Join(a, b) == IF IsAbsolute(b) THEN b ELSE a \o b

\* p.parent
Parent(p) == IF Len(p) <= 1 THEN p ELSE SubSeq(p, 1, Len(p) - 1)

\* p.name
Name(p) == IF Len(p) = 0 \/ p = <<"/">> THEN "" ELSE p[Len(p)]

IsPrefix(a, b) == Len(a) <= Len(b) /\ SubSeq(b, 1, Len(a)) = a

\* p.relative_to(base), where it does not raise ValueError
RelativeTo(p, base) == SubSeq(p, Len(base) + 1, Len(p))

(***************************************************************************)
(* The filesystem: /real is the project directory, /real/sub a directory   *)
(* in it, /ext a directory beside it, and /link a symbolic link to /real.  *)
(***************************************************************************)
RootDir == <<"/">>

RealDir == <<"/", "real">>

SubDir == <<"/", "real", "sub">>

ExtDir == <<"/", "ext">>

LinkDir == <<"/", "link">>

Dirs == {RootDir, RealDir, SubDir, ExtDir}

\* One step of path resolution from the canonical directory cur.
OSStep(cur, part) ==
    IF part = ".." THEN Parent(cur)
    ELSE IF Append(cur, part) = LinkDir THEN RealDir
    ELSE Append(cur, part)

\* p.resolve() of an absolute path: links followed, ".." removed; parts that
\* do not exist are kept.
RECURSIVE ResolveFrom(_, _)
ResolveFrom(cur, rest) ==
    IF rest = <<>> THEN cur ELSE ResolveFrom(OSStep(cur, rest[1]), Tail(rest))

RealPath(p) == ResolveFrom(RootDir, Tail(p))

\* p.exists() of an absolute path: every part but the last names a directory.
RECURSIVE ExistsFrom(_, _)
ExistsFrom(cur, rest) ==
    IF rest = <<>> THEN cur \in Dirs \cup files
    ELSE cur \in Dirs /\ ExistsFrom(OSStep(cur, rest[1]), Tail(rest))

Exists(p) == ExistsFrom(RootDir, Tail(p))

(***************************************************************************)
(* ProjectCollector                                                        *)
(***************************************************************************)
PcbName == "x.kicad_pcb"

\* f"{self.project_name}.kicad_pro", f"{self.project_name}.kicad_sch"
ProName == "x.kicad_pro"

SchName == "x.kicad_sch"

project_dir == Parent(pcb_path)

pro_path == Join(project_dir, <<ProName>>)

main_sch == Join(project_dir, <<SchName>>)

lib_table_path == Join(project_dir, <<"sym-lib-table">>)

Warning(kind, arg) == [kind |-> kind, arg |-> arg]

\* _collect_core_files
CollectCoreFiles ==
    /\ pc = "core"
    /\ collected_files' =
          collected_files
             \cup (IF Exists(pcb_path) THEN {pcb_path} ELSE {})
             \cup (IF Exists(pro_path) THEN {pro_path} ELSE {})
             \cup (IF Exists(main_sch) THEN {main_sch} ELSE {})
    /\ warnings' =
          warnings
             \o (IF Exists(pro_path) THEN <<>>
                 ELSE <<Warning("Project file not found", <<Name(pro_path)>>)>>)
             \o (IF Exists(main_sch) THEN <<>>
                 ELSE <<Warning("Schematic file not found", <<Name(main_sch)>>)>>)
    /\ pc' = "hier"
    /\ phaseLog' = Append(phaseLog, "core")
    /\ afterCore' = [collected |-> collected_files', warnings |-> warnings']
    /\ UNCHANGED <<external_files, visited, stack, libQueue>>
    /\ UNCHANGED <<readLog, skips, afterHier, lastLib>>
    /\ UNCHANGED <<pvars, envvars, zvars, rvars>>

Frame(path) == [path |-> path, at |-> "enter", sheets |-> <<>>]

\* Mutant of HasMainSchematic: the primary schematic is walked unconditionally.
HasMainSchematicAlways == TRUE

\* not main_sch.exists() -> return
HasMainSchematic == Exists(main_sch)

\* _collect_schematic_hierarchy
CollectSchematicHierarchy ==
    /\ pc = "hier"
    /\ IF ~HasMainSchematic
       THEN /\ pc' = "libs"
            /\ phaseLog' = Append(phaseLog, "hier")
            /\ afterHier' = [collected |-> collected_files, warnings |-> warnings]
            /\ UNCHANGED <<visited, stack>>
       ELSE /\ visited' = {}
            /\ stack' = <<Frame(main_sch)>>
            /\ pc' = "walk"
            /\ UNCHANGED <<phaseLog, afterHier>>
    /\ UNCHANGED <<collected_files, external_files, warnings, libQueue>>
    /\ UNCHANGED <<readLog, skips, afterCore, lastLib>>
    /\ UNCHANGED <<pvars, envvars, zvars, rvars>>

Top == stack[Len(stack)]

Pop == SubSeq(stack, 1, Len(stack) - 1)

\* A call of _parse_schematic_sheets returns: to its caller's loop, or, from
\* the outermost call, to collect_all.
Return(coll, warn) ==
    /\ stack' = Pop
    /\ IF Len(stack) = 1
       THEN /\ pc' = "libs"
            /\ phaseLog' = Append(phaseLog, "hier")
            /\ afterHier' = [collected |-> coll, warnings |-> warn]
       ELSE UNCHANGED <<pc, phaseLog, afterHier>>

\* Mutant of VisitKey: the visited set is keyed by the path as it was written.
VisitKeyAsWritten(path) == path

\* resolved = sch_path.resolve()
VisitKey(path) == RealPath(path)

\* sheets = find_elements(tree, "sheet") with get_property(sheet, "Sheetfile")
\* of each: the content of the file read.
SheetFiles(path) == content[RealPath(path)]

\* Mutant of ReadFails: every existing schematic is read and parsed.
ReadNeverFails(path) == FALSE

\* content = sch_path.read_text(...); tree = parse_kicad(content) raises
ReadFails(path) == RealPath(path) \in unreadable

\* _parse_schematic_sheets, from its entry to the start of the loop
ParseEnter ==
    /\ pc = "walk"
    /\ Top.at = "enter"
    /\ LET sch_path == Top.path
           resolved == VisitKey(sch_path)
       IN  IF resolved \in visited
           THEN /\ skips' = skips + 1
                /\ Return(collected_files, warnings)
                /\ UNCHANGED <<visited, warnings, readLog>>
           ELSE /\ visited' = visited \cup {resolved}
                /\ skips' = skips
                /\ IF ~Exists(sch_path)
                   THEN /\ warnings' = Append(warnings,
                               Warning("Referenced schematic not found", sch_path))
                        /\ Return(collected_files, warnings')
                        /\ UNCHANGED readLog
                   ELSE IF ReadFails(sch_path)
                   THEN /\ warnings' = Append(warnings,
                               Warning("Error parsing", <<Name(sch_path)>>))
                        /\ Return(collected_files, warnings')
                        /\ UNCHANGED readLog
                   ELSE /\ readLog' = Append(readLog, RealPath(sch_path))
                        /\ stack' = [stack EXCEPT ![Len(stack)] =
                               [path |-> sch_path, at |-> "loop",
                                sheets |-> SheetFiles(sch_path)]]
                        /\ UNCHANGED <<warnings, pc, phaseLog, afterHier>>
    /\ UNCHANGED <<collected_files, external_files, libQueue>>
    /\ UNCHANGED <<afterCore, lastLib>>
    /\ UNCHANGED <<pvars, envvars, zvars, rvars>>

\* Mutant of SheetPath: the reference is resolved from the project root.
SheetPathFromRoot(sch_path, sheet_file) == Join(project_dir, sheet_file)

\* sheet_path = sch_path.parent / sheet_file
SheetPath(sch_path, sheet_file) == Join(Parent(sch_path), sheet_file)

\* One iteration of `for sheet in sheets`
SheetStep ==
    /\ pc = "walk"
    /\ Top.at = "loop"
    /\ Top.sheets # <<>>
    /\ LET sheet_file == Top.sheets[1]
           sheet_path == SheetPath(Top.path, sheet_file)
           rest == [stack EXCEPT ![Len(stack)].sheets = Tail(Top.sheets)]
       IN  IF sheet_file = <<>>
           THEN /\ stack' = rest
                /\ UNCHANGED <<collected_files, warnings>>
           ELSE IF Exists(sheet_path)
           THEN /\ collected_files' = collected_files \cup {RealPath(sheet_path)}
                /\ stack' = Append(rest, Frame(sheet_path))
                /\ UNCHANGED warnings
           ELSE /\ warnings' = Append(warnings, Warning("Subsheet not found", sheet_file))
                /\ stack' = rest
                /\ UNCHANGED collected_files
    /\ UNCHANGED <<external_files, visited, libQueue, pc>>
    /\ UNCHANGED hvars
    /\ UNCHANGED <<pvars, envvars, zvars, rvars>>

\* The loop is over: the call returns.
ParseReturn ==
    /\ pc = "walk"
    /\ Top.at = "loop"
    /\ Top.sheets = <<>>
    /\ Return(collected_files, warnings)
    /\ UNCHANGED <<collected_files, external_files, warnings, visited, libQueue>>
    /\ UNCHANGED <<readLog, skips, afterCore, lastLib>>
    /\ UNCHANGED <<pvars, envvars, zvars, rvars>>

(***************************************************************************)
(* Library URIs.  A URI is the sequence of its lexemes: a placeholder, a   *)
(* separator "/" or "\\", or a name.                                       *)
(***************************************************************************)
KiPrjMod == "${KIPRJMOD}"

\* The lexemes that start with "${KICAD".
KicadSystemTokens == {"${KICAD7_SYMBOL_DIR}", "${KICAD_SYMBOL_DIR}"}

\* str(path) of an absolute path, as lexemes
RECURSIVE StrOf(_)
StrOf(p) ==
    IF p = <<>> THEN <<>>
    ELSE IF p[1] = "/" THEN <<"/">> \o StrOf(Tail(p))
    ELSE IF Len(p) = 1 THEN <<p[1]>>
    ELSE <<p[1], "/">> \o StrOf(Tail(p))

\* uri.replace(old, new) for a one-lexeme old
RECURSIVE ReplaceToken(_, _, _)
ReplaceToken(u, old, new) ==
    IF u = <<>> THEN <<>>
    ELSE (IF u[1] = old THEN new ELSE <<u[1]>>) \o ReplaceToken(Tail(u), old, new)

\* Path(uri)
PathOf(u) ==
    (IF u # <<>> /\ u[1] = "/" THEN <<"/">> ELSE <<>>)
       \o SelectSeq(u, LAMBDA t : t \notin {"/", "."})

NoPath == <<"<None>">>

\* Mutant of ResolveLibPath: backslashes are left alone.
ResolveLibPathKeepBackslash(uri) ==
    IF uri[1] \in KicadSystemTokens THEN NoPath
    ELSE LET u1 == IF uri[1] = KiPrjMod
                   THEN ReplaceToken(uri, KiPrjMod, StrOf(project_dir))
                   ELSE uri
             path == PathOf(u1)
         IN  IF ~IsAbsolute(path) THEN Join(project_dir, path) ELSE path

\* _resolve_lib_path(uri) for a non-empty uri; NoPath for None
ResolveLibPath(uri) ==
    IF uri[1] \in KicadSystemTokens THEN NoPath
    ELSE LET u1 == IF uri[1] = KiPrjMod
                   THEN ReplaceToken(uri, KiPrjMod, StrOf(project_dir))
                   ELSE uri
             u2 == ReplaceToken(u1, "\\", <<"/">>)
             path == PathOf(u2)
         IN  IF ~IsAbsolute(path) THEN Join(project_dir, path) ELSE path

\* Mutant of IsExternal: containment is tested on the paths as written.
IsExternalAsWritten(path) == ~IsPrefix(project_dir, path)

\* _is_external(path)
IsExternal(path) == ~IsPrefix(RealPath(project_dir), RealPath(path))

\* _collect_symbol_libraries, up to the loop
CollectSymbolLibraries ==
    /\ pc = "libs"
    /\ IF ~libTable.exists
       THEN /\ pc' = "done"
            /\ phaseLog' = Append(phaseLog, "libs")
            /\ UNCHANGED <<warnings, libQueue>>
       ELSE IF ~libTable.readable
       THEN /\ warnings' = Append(warnings, Warning("Error parsing sym-lib-table", <<>>))
            /\ pc' = "done"
            /\ phaseLog' = Append(phaseLog, "libs")
            /\ UNCHANGED libQueue
       ELSE /\ libQueue' = libTable.libs
            /\ pc' = "libloop"
            /\ UNCHANGED <<warnings, phaseLog>>
    /\ UNCHANGED <<collected_files, external_files, visited, stack>>
    /\ UNCHANGED <<readLog, skips, afterCore, afterHier, lastLib>>
    /\ UNCHANGED <<pvars, envvars, zvars, rvars>>

\* external_files[key] = value
Put(map, key, value) ==
    [k \in DOMAIN map \cup {key} |-> IF k = key THEN value ELSE map[k]]

\* One iteration of `for lib in libs`
LibStep ==
    /\ pc = "libloop"
    /\ libQueue # <<>>
    /\ LET lib == libQueue[1]
           uri == lib.uri
           lib_path == IF uri = <<>> THEN NoPath ELSE ResolveLibPath(uri)
       IN  /\ lastLib' = [lib |-> lib, path |-> lib_path,
                          collected |-> collected_files,
                          external |-> external_files,
                          warnings |-> warnings]
           /\ IF uri = <<>> \/ lib_path = NoPath
              THEN UNCHANGED <<collected_files, external_files, warnings>>
              ELSE IF Exists(lib_path)
              THEN IF IsExternal(lib_path)
                   THEN /\ external_files' =
                              Put(external_files, RealPath(lib_path),
                                  IF lib.name # "" THEN lib.name ELSE Name(lib_path))
                        /\ UNCHANGED <<collected_files, warnings>>
                   ELSE /\ collected_files' = collected_files \cup {RealPath(lib_path)}
                        /\ UNCHANGED <<external_files, warnings>>
              ELSE /\ warnings' = Append(warnings, Warning("Library not found", uri))
                   /\ UNCHANGED <<collected_files, external_files>>
    /\ libQueue' = Tail(libQueue)
    /\ UNCHANGED <<visited, stack, pc>>
    /\ UNCHANGED <<readLog, skips, phaseLog, afterCore, afterHier>>
    /\ UNCHANGED <<pvars, envvars, zvars, rvars>>

\* The loop is over: _collect_symbol_libraries and collect_all return.
LibReturn ==
    /\ pc = "libloop"
    /\ libQueue = <<>>
    /\ pc' = "done"
    /\ phaseLog' = Append(phaseLog, "libs")
    /\ UNCHANGED <<collected_files, external_files, warnings, visited, stack, libQueue>>
    /\ UNCHANGED <<readLog, skips, afterCore, afterHier, lastLib>>
    /\ UNCHANGED <<pvars, envvars, zvars, rvars>>

ExternalLibs == "external_libs"

\* get_files_for_zip(): source path -> archive path, as its parts
get_files_for_zip ==
    [f \in collected_files \cup DOMAIN external_files |->
        IF f \in DOMAIN external_files THEN <<ExternalLibs, Name(f)>>
        ELSE IF IsPrefix(project_dir, f) THEN RelativeTo(f, project_dir)
        ELSE <<Name(f)>>]

(***************************************************************************)
(* Inputs of the collector.  The project is x.kicad_pcb, opened as         *)
(* /real/x.kicad_pcb or through the link as /link/x.kicad_pcb.             *)
(***************************************************************************)
SchX == <<"/", "real", "x.kicad_sch">>

SchB == <<"/", "real", "b.kicad_sch">>

SchC == <<"/", "real", "sub", "c.kicad_sch">>

SchFiles == {SchX, SchB, SchC}

LibFoo == <<"/", "real", "foo.kicad_sym">>

LibSubFoo == <<"/", "real", "sub", "foo.kicad_sym">>

LibBar == <<"/", "ext", "bar.kicad_sym">>

LibFiles == {LibFoo, LibSubFoo, LibBar}

PcbFile == <<"/", "real", PcbName>>

ProFile == <<"/", "real", ProName>>

TableFile == <<"/", "real", "sym-lib-table">>

\* Sheetfile values; <<>> is a sheet without the property.
SheetRefs ==
    { <<>>,
      <<"b.kicad_sch">>,
      <<"x.kicad_sch">>,
      <<"sub", "c.kicad_sch">>,
      <<"..", "x.kicad_sch">> }

Contents ==
    UNION { UNION { { [f \in SchFiles |-> IF f = SchX THEN a ELSE IF f = SchB THEN b ELSE c] :
                        c \in SeqsUpTo(SheetRefs, MaxSheets - Len(a) - Len(b)) } :
                    b \in SeqsUpTo(SheetRefs, MaxSheets - Len(a)) } :
            a \in SeqsUpTo(SheetRefs, MaxSheets) }

NoSheets == [f \in SchFiles |-> <<>>]

\* uri values; <<>> is a lib without a uri.
LibUris ==
    { <<>>,
      <<KiPrjMod, "/", "foo.kicad_sym">>,
      <<"${KICAD7_SYMBOL_DIR}", "/", "foo.kicad_sym">>,
      <<"/", "ext", "/", "bar.kicad_sym">>,
      <<"sub", "\\", "foo.kicad_sym">>,
      <<KiPrjMod, "/", "..", "/", "ext", "/", "bar.kicad_sym">>,
      <<"gone.kicad_sym">> }

\* name values; "" is a lib without a name.
LibNames == {"", "MyLib"}

LibEntries == [uri : LibUris, name : LibNames]

NoTable == [exists |-> FALSE, readable |-> FALSE, libs |-> <<>>]

Table(libs) == [exists |-> TRUE, readable |-> TRUE, libs |-> libs]

BadTable == [exists |-> TRUE, readable |-> FALSE, libs |-> <<>>]

PcbPaths == {Append(RealDir, PcbName), Append(LinkDir, PcbName)}

NoLib == [lib |-> [uri |-> <<>>, name |-> ""], path |-> NoPath,
          collected |-> {}, external |-> <<>>, warnings |-> <<>>]

NoSnapshot == [collected |-> {}, warnings |-> <<>>]

NoRun == [collected |-> {}, external |-> <<>>, warnings |-> <<>>]

\* create_zip is not running.
IdleZip ==
    /\ zfiles = <<>>
    /\ zpos = 0
    /\ zhandle = "none"
    /\ zarchive = <<>>
    /\ zerror = "none"
    /\ zmessage = "none"
    /\ zpc = "idle"

\* The collector after __init__.
InitCollector ==
    /\ collected_files = {}
    /\ external_files = <<>>
    /\ warnings = <<>>
    /\ visited = {}
    /\ stack = <<>>
    /\ libQueue = <<>>
    /\ readLog = <<>>
    /\ skips = 0
    /\ phaseLog = <<>>
    /\ afterCore = NoSnapshot
    /\ afterHier = NoSnapshot
    /\ lastLib = NoLib
    /\ again = "none"
    /\ first = NoRun

\* Projects that vary in their sheet hierarchy.
InitHierarchy ==
    /\ files = {PcbFile, ProFile} \cup SchFiles \cup LibFiles
    /\ content \in Contents
    /\ unreadable \in {{}} \cup {{f} : f \in SchFiles}
    /\ libTable = NoTable

\* Projects that vary in their library table, and in which core files exist.
InitLibraries ==
    /\ \E core \in SUBSET {ProFile, SchX} :
          files = {PcbFile, SchB, SchC, TableFile} \cup LibFiles \cup core
    /\ content = [NoSheets EXCEPT ![SchX] = IF SchX \in files THEN <<<<"b.kicad_sch">>>> ELSE <<>>]
    /\ unreadable \in {{}, {SchB}}
    /\ libTable \in {BadTable} \cup {Table(libs) : libs \in SeqsUpTo(LibEntries, MaxLibs)}

IdleParser ==
    /\ text = <<>>
    /\ i = 0
    /\ tokens = <<>>
    /\ steps = 0
    /\ ppc = "idle"
    /\ tree = NoTree
    /\ endpos = 0
    /\ findName = <<>>
    /\ found = <<>>

Init ==
    /\ IdleParser
    /\ pcb_path \in PcbPaths
    /\ InitHierarchy \/ InitLibraries
    /\ InitCollector
    /\ pc = "core"
    /\ IdleZip

Next ==
    \/ CollectCoreFiles
    \/ CollectSchematicHierarchy
    \/ ParseEnter
    \/ SheetStep
    \/ ParseReturn
    \/ CollectSymbolLibraries
    \/ LibStep
    \/ LibReturn

Spec == Init /\ [][Next]_vars

(***************************************************************************)
(* A phase of collect_all run a second time on the same collector          *)
(***************************************************************************)
\* The phase that has returned when collect_all is at p.
PhaseBefore(p) == IF p = "hier" THEN "core" ELSE IF p = "libs" THEN "hier" ELSE "libs"

\* Where collect_all is when the phase p has returned.
PhaseAfter(p) == IF p = "core" THEN "hier" ELSE IF p = "hier" THEN "libs" ELSE "done"

\* The phase that has just returned is called once more, the filesystem as
\* it was; the walk it starts has a log of its own.
RunAgain ==
    /\ again = "none"
    /\ pc \in {"hier", "libs", "done"}
    /\ again' = PhaseBefore(pc)
    /\ first' = [collected |-> collected_files, external |-> external_files,
                 warnings |-> warnings]
    /\ pc' = PhaseBefore(pc)
    /\ readLog' = <<>>
    /\ skips' = 0
    /\ UNCHANGED <<collected_files, external_files, warnings, visited, stack, libQueue>>
    /\ UNCHANGED <<phaseLog, afterCore, afterHier, lastLib>>
    /\ UNCHANGED <<pvars, envvars, zvars>>

NextAgain ==
    \/ CollectCoreFiles
    \/ CollectSchematicHierarchy
    \/ ParseEnter
    \/ SheetStep
    \/ ParseReturn
    \/ CollectSymbolLibraries
    \/ LibStep
    \/ LibReturn
    \/ RunAgain

SpecAgain == Init /\ [][NextAgain]_vars

\* No collector: the state of the specifications of the parser alone.
IdleCollector ==
    /\ pcb_path = Append(RealDir, PcbName)
    /\ files = {}
    /\ content = NoSheets
    /\ unreadable = {}
    /\ libTable = NoTable
    /\ InitCollector
    /\ pc = "idle"

(***************************************************************************)
(* ZipExporter.create_zip, called from NetlistPluginAction.Run             *)
(***************************************************************************)
\* Entries of a mapping as get_files_for_zip returns it.
ZipEntries ==
    { [src |-> <<"/", "real", "x.kicad_pcb">>, arc |-> <<"x.kicad_pcb">>],
      [src |-> <<"/", "real", "x.kicad_sch">>, arc |-> <<"x.kicad_sch">>],
      [src |-> <<"/", "real", "sub", "c.kicad_sch">>, arc |-> <<"sub", "c.kicad_sch">>],
      [src |-> <<"/", "ext", "bar.kicad_sym">>, arc |-> <<ExternalLibs, "bar.kicad_sym">>] }

IsOneToOne(s) == \A a, b \in 1..Len(s) : s[a] = s[b] => a = b

\* Failures of the archive's file: permission denied, disk full.
ZipErrors == {"PermissionError", "OSError"}

\* Run, as it calls exporter.create_zip(files) with a non-empty mapping.
InitZip ==
    /\ IdleParser
    /\ IdleCollector
    /\ zfiles \in {s \in SeqsUpTo(ZipEntries, MaxFiles) : s # <<>> /\ IsOneToOne(s)}
    /\ zpos = 1
    /\ zhandle = "none"
    /\ zarchive = <<>>
    /\ zerror = "none"
    /\ zmessage = "none"
    /\ zpc = "open"

\* zipfile.ZipFile(self.output_path, "w", ...): the archive is created, or
\* the open fails and nothing was opened.
ZipOpen ==
    /\ zpc = "open"
    /\ \/ /\ zhandle' = "open"
          /\ zpc' = "loop"
          /\ UNCHANGED zerror
       \/ /\ \E e \in ZipErrors : zerror' = e
          /\ zpc' = "raised"
          /\ UNCHANGED zhandle
    /\ UNCHANGED <<zfiles, zpos, zarchive, zmessage>>
    /\ UNCHANGED <<pvars, envvars, cvars, hvars, rvars>>

\* One iteration of `for source_path, archive_path in files.items()`:
\* a source that is gone is passed over; a write succeeds or raises.
ZipWrite ==
    /\ zpc = "loop"
    /\ zpos <= Len(zfiles)
    /\ \/ /\ zpos' = zpos + 1
          /\ UNCHANGED <<zarchive, zerror, zpc>>
       \/ /\ zarchive' = Append(zarchive, zfiles[zpos].arc)
          /\ zpos' = zpos + 1
          /\ UNCHANGED <<zerror, zpc>>
       \/ /\ \E e \in ZipErrors : zerror' = e
          /\ zpc' = "exit"
          /\ UNCHANGED <<zarchive, zpos>>
    /\ UNCHANGED <<zfiles, zhandle, zmessage>>
    /\ UNCHANGED <<pvars, envvars, cvars, hvars, rvars>>

\* Mutant of HandleAfterExit: the archive is closed on the normal path only.
HandleAfterExitNormalOnly(failed) == IF failed THEN "open" ELSE "closed"

\* The with statement's exit closes the archive, raising or not.
HandleAfterExit(failed) == "closed"

\* Leaving the with block: after the loop, where writing the archive's
\* directory on close succeeds or raises, or with the exception of a write,
\* which propagates to the caller.
ZipExit ==
    /\ \/ zpc = "loop" /\ zpos > Len(zfiles) /\ zpc' = "returned" /\ UNCHANGED zerror
       \/ /\ zpc = "loop" /\ zpos > Len(zfiles)
          /\ \E e \in ZipErrors : zerror' = e
          /\ zpc' = "raised"
       \/ zpc = "exit" /\ zpc' = "raised" /\ UNCHANGED zerror
    /\ zhandle' = HandleAfterExit(zpc = "exit")
    /\ UNCHANGED <<zfiles, zpos, zarchive, zmessage>>
    /\ UNCHANGED <<pvars, envvars, cvars, hvars, rvars>>

\* Run: the success message, or the except clause that matches.
RunReport ==
    /\ zpc \in {"returned", "raised"}
    /\ zmessage' = IF zpc = "returned" THEN "Export Complete"
                   ELSE IF zerror = "PermissionError" THEN "Cannot write"
                   ELSE "Error creating zip file"
    /\ zpc' = "reported"
    /\ UNCHANGED <<zfiles, zpos, zhandle, zarchive, zerror>>
    /\ UNCHANGED <<pvars, envvars, cvars, hvars, rvars>>

NextZip == ZipOpen \/ ZipWrite \/ ZipExit \/ RunReport

SpecZip == InitZip /\ [][NextZip]_vars

(***************************************************************************)
(* parse_kicad as a state machine                                          *)
(***************************************************************************)
InitParse ==
    /\ text \in Texts
    /\ i = 0
    /\ tokens = <<>>
    /\ steps = 0
    /\ ppc = "tokenize"
    /\ tree = NoTree
    /\ endpos = 0
    /\ findName = <<>>
    /\ found = <<>>
    /\ IdleCollector
    /\ IdleZip

\* One iteration of `while i < length`.
TokenizeStep ==
    /\ ppc = "tokenize"
    /\ i < Len(text)
    /\ LET r == TokenizeAt(text, i)
       IN  /\ tokens' = IF r.tok = <<>> THEN tokens ELSE Append(tokens, r.tok)
           /\ i' = r.next
    /\ steps' = steps + 1
    /\ UNCHANGED <<text, ppc, tree, endpos, findName, found>>
    /\ UNCHANGED <<envvars, cvars, hvars, zvars, rvars>>

\* The loop ends: return tokens.
TokenizeReturn ==
    /\ ppc = "tokenize"
    /\ i >= Len(text)
    /\ ppc' = "parse"
    /\ UNCHANGED <<text, i, tokens, steps, tree, endpos, findName, found>>
    /\ UNCHANGED <<envvars, cvars, hvars, zvars, rvars>>

\* result, _ = _parse_tokens(tokens, 0)
ParseStep ==
    /\ ppc = "parse"
    /\ LET r == ParseTokens(tokens, 0)
       IN  /\ tree' = r.result
           /\ endpos' = r.pos
    /\ ppc' = "parsed"
    /\ UNCHANGED <<text, i, tokens, steps, findName, found>>
    /\ UNCHANGED <<envvars, cvars, hvars, zvars, rvars>>

NextParse == TokenizeStep \/ TokenizeReturn \/ ParseStep

SpecParse == InitParse /\ [][NextParse]_vars

(***************************************************************************)
(* find_elements on parsed trees: the token lists over "(", ")", s, a and  *)
(* the documented example, searched for each name.                         *)
(***************************************************************************)
FindAtoms == {<<"s">>, <<"a">>}

Sheet == <<"s", "h", "e", "e", "t">>

\* (root (sheet (at 0 0)) (sheet (at 1 1)))
ExampleFindTokens ==
    << <<"(">>, <<"r", "o", "o", "t">>,
       <<"(">>, Sheet, <<"(">>, <<"a", "t">>, <<"0">>, <<"0">>, <<")">>, <<")">>,
       <<"(">>, Sheet, <<"(">>, <<"a", "t">>, <<"1">>, <<"1">>, <<")">>, <<")">>,
       <<")">> >>

FindInputs == SeqsUpTo({<<"(">>, <<")">>} \cup FindAtoms, MaxTokens) \cup {ExampleFindTokens}

InitFind ==
    /\ text = <<>>
    /\ i = 0
    /\ tokens \in FindInputs
    /\ steps = 0
    /\ ppc = "parse"
    /\ tree = NoTree
    /\ endpos = 0
    /\ findName = <<>>
    /\ found = <<>>
    /\ IdleCollector
    /\ IdleZip

\* sheets = find_elements(tree, "sheet")
FindStep(name) ==
    /\ ppc = "parsed"
    /\ findName' = name
    /\ found' = find_elements(tree, name)
    /\ ppc' = "found"
    /\ UNCHANGED <<text, i, tokens, steps, tree, endpos>>
    /\ UNCHANGED <<envvars, cvars, hvars, zvars, rvars>>

NextFind == ParseStep \/ \E name \in FindAtoms \cup {Sheet} : FindStep(name)

SpecFind == InitFind /\ [][NextFind]_vars

(***************************************************************************)
(* Claims about the parser                                                 *)
(***************************************************************************)
RECURSIVE IsNode(_)
IsNode(n) ==
    \/ n.kind = "Atom"
    \/ /\ n.kind = "List"
       /\ \A k \in 1..Len(n.items) : IsNode(n.items[k])

\* The nesting depth left open after the first k tokens, d > 0 being the depth
\* so far; 0 once the list opened by the first token has been closed.
RECURSIVE OpenDepth(_, _, _)
OpenDepth(toks, k, d) ==
    IF k >= Len(toks) THEN d
    ELSE LET d2 == IF toks[k + 1] = <<"(">> THEN d + 1
                   ELSE IF toks[k + 1] = <<")">> THEN d - 1 ELSE d
         IN  IF d2 = 0 THEN 0 ELSE OpenDepth(toks, k + 1, d2)

Unclosed(toks) ==
    IF toks # <<>> /\ toks[1] = <<"(">> THEN OpenDepth(toks, 1, 1) ELSE 0

Closers(n) == [k \in 1..n |-> <<")">>]

IsParen(tok) == tok \in {<<"(">>, <<")">>}

\* C6: the parser is total.  The tokenizer's loop runs at most once per
\* character and is never stuck before it returns; every call of
\* _parse_tokens inside the token list advances and stays inside it; the
\* result is a Node; empty input gives the empty List; an unclosed "(" gives
\* the List its children form, the same as with the missing ")" supplied,
\* and all tokens are consumed; a leading ")" gives the empty List at
\* position 1.
ParserTotal ==
    /\ steps <= Len(text)
    /\ i <= Len(text) + 2
    /\ ppc \in {"tokenize", "parse"} => ENABLED NextParse
    /\ \A pos \in 0..(Len(tokens) - 1) :
          ParseTokens(tokens, pos).pos \in (pos + 1)..Len(tokens)
    /\ ppc = "parsed" =>
          /\ IsNode(tree)
          /\ endpos \in 0..Len(tokens)
          /\ tokens = <<>> => tree = ListNode(<<>>) /\ endpos = 0
          /\ Unclosed(tokens) > 0 =>
                /\ tree.kind = "List"
                /\ endpos = Len(tokens)
                /\ tree = ParseTokens(tokens \o Closers(Unclosed(tokens)), 0).result
                /\ (\A k \in 2..Len(tokens) : ~IsParen(tokens[k])) =>
                      tree.items = [k \in 1..(Len(tokens) - 1) |->
                                       AtomNode(AtomValue(tokens[k + 1]))]
          /\ (tokens # <<>> /\ tokens[1] = <<")">>) =>
                tree = ListNode(<<>>) /\ endpos = 1

\* Witness of C6: an unclosed list with a child, parsed from a text with an
\* unterminated string.
ParserTotalWitness ==
    /\ ppc = "parsed"
    /\ Unclosed(tokens) > 0
    /\ Len(tree.items) > 0
    /\ \E k \in 1..Len(tokens) : tokens[k][1] = "\"" /\ ~EndsWith(tokens[k], <<"\"">>)

\* A second witness state of C6: a ")" where a value is expected.
StrayCloserParsed ==
    ppc = "parsed" /\ tokens # <<>> /\ tokens[1] = <<")">> /\ Len(tokens) > 1

\* The characters after the opening quote run to an unescaped closing quote,
\* which is the last character.
RECURSIVE ClosesAtEnd(_)
ClosesAtEnd(s) ==
    IF s = <<>> THEN FALSE
    ELSE IF s[1] = "\\" THEN Len(s) >= 2 /\ ClosesAtEnd(SubSeq(s, 3, Len(s)))
    ELSE IF s[1] = "\"" THEN Len(s) = 1
    ELSE ClosesAtEnd(Tail(s))

IsQuotedString(tok) == tok # <<>> /\ tok[1] = "\"" /\ ClosesAtEnd(Tail(tok))

\* The escapes of a string body taken left to right, pair by pair.
RECURSIVE ResolveEscapes(_)
ResolveEscapes(s) ==
    IF s = <<>> THEN <<>>
    ELSE IF s[1] = "\\" /\ Len(s) >= 2
         THEN (IF s[2] \in {"\"", "\\"} THEN <<s[2]>> ELSE <<s[1], s[2]>>)
              \o ResolveEscapes(SubSeq(s, 3, Len(s)))
         ELSE <<s[1]>> \o ResolveEscapes(Tail(s))

\* The Atom values of a tree in document order.
RECURSIVE Leaves(_), LeavesOf(_, _)
Leaves(n) == IF n.kind = "Atom" THEN <<n.val>> ELSE LeavesOf(n.items, 1)

LeavesOf(items, k) ==
    IF k > Len(items) THEN <<>> ELSE Leaves(items[k]) \o LeavesOf(items, k + 1)

\* The tokens _parse_tokens(tokens, 0) consumed that are not parentheses.
ParsedAtomTokens == SelectSeq(SubSeq(tokens, 1, endpos), LAMBDA t : ~IsParen(t))

\* Quoted-string tokens are unquoted and unescaped.
QuotedAtomsResolved ==
    ppc = "parsed" =>
        /\ Len(Leaves(tree)) = Len(ParsedAtomTokens)
        /\ \A k \in 1..Len(ParsedAtomTokens) :
              IsQuotedString(ParsedAtomTokens[k]) =>
                 Leaves(tree)[k] =
                    ResolveEscapes(SubSeq(ParsedAtomTokens[k], 2, Len(ParsedAtomTokens[k]) - 1))

\* C7: every quoted-string token becomes the Atom of its unquoted, unescaped
\* body, and every other token (parentheses apart) is the Atom's value verbatim.
AtomValues ==
    /\ QuotedAtomsResolved
    /\ ppc = "parsed" =>
          \A k \in 1..Len(ParsedAtomTokens) :
              ~IsQuotedString(ParsedAtomTokens[k]) => Leaves(tree)[k] = ParsedAtomTokens[k]

\* The index paths of the List nodes of a tree.
RECURSIVE ListPaths(_)
ListPaths(n) ==
    IF n.kind # "List" THEN {}
    ELSE {<<>>} \cup UNION {{<<k>> \o p : p \in ListPaths(n.items[k])} : k \in 1..Len(n.items)}

RECURSIVE NodeAt(_, _)
NodeAt(n, p) == IF p = <<>> THEN n ELSE NodeAt(n.items[p[1]], Tail(p))

\* Pre-order: an ancestor before its descendants, an earlier sibling's subtree
\* before a later one's.
RECURSIVE PreOrderLess(_, _)
PreOrderLess(p, q) ==
    IF p = <<>> THEN q # <<>>
    ELSE IF q = <<>> THEN FALSE
    ELSE IF p[1] = q[1] THEN PreOrderLess(Tail(p), Tail(q))
    ELSE p[1] < q[1]

MatchPaths(n, name) == {p \in ListPaths(n) : HeadIs(NodeAt(n, p), name)}

\* C8: find_elements returns exactly the List nodes headed by the Atom name,
\* each once and whole, in depth-first pre-order.
FindElementsPreOrder ==
    ppc = "found" =>
        LET M == MatchPaths(tree, findName)
        IN  /\ Len(found) = Cardinality(M)
            /\ \A p \in M :
                  found[Cardinality({q \in M : PreOrderLess(q, p)}) + 1] = NodeAt(tree, p)

\* Witness of C8: a match nested in a match, and a later match beside it.
FindElementsWitness ==
    /\ ppc = "found"
    /\ \E p, q, r \in MatchPaths(tree, findName) :
          /\ Len(q) > Len(p) /\ SubSeq(q, 1, Len(p)) = p
          /\ PreOrderLess(q, r) /\ ~(Len(r) > Len(q) /\ SubSeq(r, 1, Len(q)) = q)
          /\ r # p

(***************************************************************************)
(* Claims about the collector                                              *)
(***************************************************************************)
Range(s) == {s[k] : k \in 1..Len(s)}

\* The members of the Collected File Set that name the file f.
MembersOf(f) == {m \in collected_files : RealPath(m) = f}

\* x.kicad_sch references b.kicad_sch, which references x.kicad_sch.
CyclicProject ==
    /\ SchX \in files
    /\ unreadable = {}
    /\ <<"b.kicad_sch">> \in Range(content[SchX])
    /\ <<"x.kicad_sch">> \in Range(content[SchB])

\* Every Sheetfile of every schematic read names an existing file.
AllSheetsExist ==
    \A f \in Range(readLog) : \A ref \in Range(content[f]) :
        ref # <<>> => Exists(Join(Parent(f), ref))

SheetWarnings ==
    {"Subsheet not found", "Referenced schematic not found", "Error parsing"}

\* C1: cycle safety.  The walk is never stuck and reads no more schematics
\* than there are, and when collect_all has returned every collected file is a member exactly once, under
\* whatever name it was reached; with x and b referencing each other both
\* are members, and references that all exist leave no warning of the walk.
CycleSafety ==
    /\ pc = "walk" => ENABLED ParseEnter \/ ENABLED SheetStep \/ ENABLED ParseReturn
    /\ Len(readLog) <= Cardinality(SchFiles)
    /\ pc = "done" =>
          /\ \A m \in collected_files : Cardinality(MembersOf(RealPath(m))) = 1
          /\ CyclicProject =>
                /\ Cardinality(MembersOf(SchX)) = 1
                /\ Cardinality(MembersOf(SchB)) = 1
                /\ AllSheetsExist =>
                      \A w \in Range(warnings) : w.kind \notin SheetWarnings

\* C2: in one hierarchy walk no schematic is read twice; what is read was
\* first entered in the visited set under its canonical path, and the calls
\* in progress are all for different files.
ReadAtMostOnce ==
    /\ IsOneToOne(readLog)
    /\ Range(readLog) \subseteq visited
    /\ \A v \in visited : RealPath(v) = v
    /\ \A a, b \in 1..Len(stack) :
          (stack[a].at = "loop" /\ stack[b].at = "loop"
              /\ RealPath(stack[a].path) = RealPath(stack[b].path)) => a = b
    /\ \A a \in 1..Len(stack) :
          stack[a].at = "loop" => RealPath(stack[a].path) \in Range(readLog)

\* Witness of C2: one parent referencing the same sheet twice, and that sheet
\* referencing the parent back under another name, the project opened through
\* the link: two files read, two references returned from at once.
ReadAtMostOnceWitness ==
    /\ pc = "done"
    /\ project_dir = LinkDir
    /\ content[SchX] = << <<"sub", "c.kicad_sch">>, <<"sub", "c.kicad_sch">> >>
    /\ content[SchC] = << <<"..", "x.kicad_sch">> >>
    /\ readLog = <<SchX, SchC>>
    /\ skips = 2

\* A second witness state of C2: a diamond, x referencing b and sub/c, b
\* referencing sub/c as well.
DiamondWalked ==
    /\ pc = "done"
    /\ content[SchX] = << <<"b.kicad_sch">>, <<"sub", "c.kicad_sch">> >>
    /\ content[SchB] = << <<"sub", "c.kicad_sch">> >>
    /\ readLog = <<SchX, SchB, SchC>>
    /\ skips = 1

\* The path of f below the project root.
InsideRoot(f) ==
    /\ IsPrefix(RealPath(project_dir), RealPath(f))
    /\ RealPath(f) # RealPath(project_dir)

RootRelative(f) == SubSeq(RealPath(f), Len(RealPath(project_dir)) + 1, Len(RealPath(f)))

\* C3: after a collection pass every collected file maps to its path relative
\* to the project root, every external file to external_libs/<filename>.
ArchiveMapping ==
    pc = "done" =>
        /\ \A f \in collected_files :
              InsideRoot(f) /\ get_files_for_zip[f] = RootRelative(f)
        /\ \A f \in DOMAIN external_files :
              get_files_for_zip[f] = <<ExternalLibs, Name(f)>>

\* The lib element handled last resolved to a path that exists.
LastLibExists == lastLib.path # NoPath /\ Exists(lastLib.path)

\* C4: a library whose path exists is, by where its canonical path lies,
\* either external (recorded under its declared name or else its filename,
\* archived as external_libs/<filename>, the Collected File Set unchanged) or
\* internal (collected, the External File Map unchanged).
LibraryClassification ==
    LastLibExists =>
        LET real == RealPath(lastLib.path)
            declared == lastLib.lib.name
        IN  IF InsideRoot(lastLib.path)
            THEN /\ real \in collected_files
                 /\ external_files = lastLib.external
                 /\ real \notin DOMAIN external_files
            ELSE /\ real \in DOMAIN external_files
                 /\ external_files[real] =
                       (IF declared # "" THEN declared ELSE Name(lastLib.path))
                 /\ get_files_for_zip[real] = <<ExternalLibs, Name(real)>>
                 /\ collected_files = lastLib.collected

\* Witness of C4: an undeclared-name library reached with ".." out of the
\* root, after an internal one.
LibraryClassificationWitness ==
    /\ pc = "done"
    /\ LastLibExists
    /\ ~InsideRoot(lastLib.path)
    /\ lastLib.lib.name = ""
    /\ IsPrefix(project_dir, lastLib.path)
    /\ lastLib.collected # afterHier.collected

\* The names of a URI: what its separators, of either kind, separate.
NamesOf(u) == SelectSeq(u, LAMBDA t : t \notin {"/", "\\"})

\* C5: placeholder resolution of the URI handled last.
PlaceholderResolution ==
    LET uri == lastLib.lib.uri
    IN  uri # <<>> =>
           /\ uri[1] \in KicadSystemTokens =>
                 /\ lastLib.path = NoPath
                 /\ collected_files = lastLib.collected
                 /\ external_files = lastLib.external
                 /\ warnings = lastLib.warnings
           /\ uri[1] = KiPrjMod =>
                 /\ IsAbsolute(project_dir)
                 /\ lastLib.path = project_dir \o NamesOf(Tail(uri))
           /\ uri[1] \notin KicadSystemTokens \cup {KiPrjMod} =>
                 lastLib.path = (IF uri[1] \in {"/", "\\"} THEN <<"/">> ELSE project_dir)
                                   \o NamesOf(uri)

\* Witness of C5: a host library skipped after a ${KIPRJMOD} library was
\* resolved and collected, the project opened through the link.
PlaceholderResolutionWitness ==
    /\ pc = "done"
    /\ project_dir = LinkDir
    /\ Len(libTable.libs) = 2
    /\ libTable.libs[1].uri # <<>>
    /\ libTable.libs[1].uri[1] = KiPrjMod
    /\ LibFoo \in collected_files
    /\ lastLib.lib.uri # <<>>
    /\ lastLib.lib.uri[1] \in KicadSystemTokens

\* A second witness state of C5: a relative URI with a backslash was resolved.
BackslashResolved ==
    /\ lastLib.lib.uri # <<>>
    /\ "\\" \in Range(lastLib.lib.uri)
    /\ LibSubFoo \in collected_files

\* C9: without the primary schematic the core phase warns with its name, the
\* hierarchy phase walks nothing and changes nothing, the library phase runs
\* over every lib element, and collect_all returns.
MissingPrimarySchematic ==
    ~Exists(main_sch) =>
        /\ pc # "core" =>
              /\ Warning("Schematic file not found", <<SchName>>) \in Range(afterCore.warnings)
              /\ Warning("Schematic file not found", <<SchName>>) \in Range(warnings)
        /\ pc # "walk" /\ stack = <<>> /\ visited = {} /\ readLog = <<>> /\ skips = 0
        /\ pc \in {"libs", "libloop", "done"} => afterHier = afterCore
        /\ pc = "hier" => ENABLED CollectSchematicHierarchy
        /\ pc = "libs" => ENABLED CollectSymbolLibraries
        /\ (pc = "libloop" /\ libQueue = <<>>) => ENABLED LibReturn
        /\ pc = "done" =>
              /\ phaseLog = <<"core", "hier", "libs">>
              /\ (libTable.exists /\ libTable.readable /\ libTable.libs # <<>>) =>
                    /\ libQueue = <<>>
                    /\ lastLib.lib = libTable.libs[Len(libTable.libs)]

\* Witness of C9: no primary schematic, and the library phase collected an
\* internal and an external library.
MissingPrimarySchematicWitness ==
    /\ pc = "done"
    /\ ~Exists(main_sch)
    /\ LibFoo \in collected_files
    /\ LibBar \in DOMAIN external_files
    /\ ProFile \in files

\* The state of the collector that a phase may change.
Collection ==
    [collected |-> collected_files, external |-> external_files, warnings |-> warnings]

\* C11: each phase is idempotent.  When the second run of a phase has
\* returned, the Collected File Set, the External File Map and the Warning
\* Log are what they were when its first run returned.
PhaseIdempotent ==
    (again # "none" /\ pc = PhaseAfter(again)) => Collection = first

\* What does hold of a second run: the two sets are as the first run left
\* them, and the Warning Log has the first run's log as a prefix.
SecondRunKeepsSets ==
    (again # "none" /\ pc = PhaseAfter(again)) =>
        /\ collected_files = first.collected
        /\ external_files = first.external
        /\ Len(warnings) >= Len(first.warnings)
        /\ SubSeq(warnings, 1, Len(first.warnings)) = first.warnings

\* C12: after a collection pass no two distinct members of the Collected
\* File Set have the same destination in the mapping of get_files_for_zip.
DestinationsDistinct ==
    pc = "done" =>
        \A f, g \in collected_files :
            f # g => get_files_for_zip[f] # get_files_for_zip[g]

\* What does hold: members that name different files inside the root of a
\* project opened by its canonical path have different destinations.
CanonicalDestinationsDistinct ==
    (pc = "done" /\ RealPath(project_dir) = project_dir) =>
        \A f, g \in collected_files :
            f # g => get_files_for_zip[f] # get_files_for_zip[g]

\* The file that the Sheetfile value ref names in the schematic f: relative
\* to the directory of f.
Target(f, ref) == Join(Parent(f), ref)

\* The existing files that the sheets of the schematics in S name.
Targets(S) ==
    UNION { { RealPath(Target(f, content[f][k])) :
                 k \in { j \in 1..Len(content[f]) :
                            /\ content[f][j] # <<>>
                            /\ Exists(Target(f, content[f][j])) } } : f \in S }

\* References of the schematics in S that name no existing file, each with
\* the schematic and the sheet element it is in.
Missing(S) ==
    UNION { { <<f, k>> : k \in { j \in 1..Len(content[f]) :
                                     /\ content[f][j] # <<>>
                                     /\ ~Exists(Target(f, content[f][j])) } } : f \in S }

\* S with the readable schematics reachable from it in up to n steps.
RECURSIVE Walked(_, _)
Walked(S, n) == IF n = 0 THEN S ELSE Walked(S \cup (Targets(S) \ unreadable), n - 1)

\* The schematics a walk from the primary schematic reads.
WalkedSheets == Walked({SchX} \ unreadable, Cardinality(SchFiles))

\* The existing files reachable from the primary schematic.
ReachableSheets == Targets(WalkedSheets)

\* The warnings the hierarchy phase appended.
HierarchyWarnings ==
    SubSeq(afterHier.warnings, Len(afterCore.warnings) + 1, Len(afterHier.warnings))

\* How many times w is in the sequence s.
Count(s, w) == Cardinality({k \in 1..Len(s) : s[k] = w})

HierarchyDone == pc \in {"libs", "libloop", "done"}

\* C13: with the primary schematic there and every file readable, the
\* hierarchy phase adds exactly the existing files reachable from the primary
\* schematic, each reference taken from the directory of its schematic; it
\* reads those and no others; a reference to a missing file is warned of once
\* for each sheet element that makes it, and nothing else is warned of.
SubSheetsCollected ==
    (HierarchyDone /\ Exists(main_sch) /\ unreadable = {}) =>
        /\ afterHier.collected = afterCore.collected \cup ReachableSheets
        /\ Range(readLog) = WalkedSheets
        /\ \A w \in Range(HierarchyWarnings) : w.kind = "Subsheet not found"
        /\ \A ref \in SheetRefs :
              Count(HierarchyWarnings, Warning("Subsheet not found", ref)) =
                 Cardinality({m \in Missing(WalkedSheets) : content[m[1]][m[2]] = ref})

\* Witness of C13: a sub-sheet in a directory of its own that names b, which
\* is beside the primary schematic and not beside the sub-sheet, and has a
\* sheet without a Sheetfile.
SubSheetsWitness ==
    /\ pc = "done"
    /\ unreadable = {}
    /\ content[SchX] = << <<"sub", "c.kicad_sch">> >>
    /\ content[SchC] = << <<"b.kicad_sch">>, <<>> >>
    /\ SchC \in collected_files
    /\ SchB \notin collected_files
    /\ HierarchyWarnings = << Warning("Subsheet not found", <<"b.kicad_sch">>) >>

\* C14: a schematic that exists and cannot be read or parsed is warned of by
\* name, once, where the walk enters it; it is never read and none of its
\* references is followed; the walk goes on with what is left of the
\* parent's sheets, the library phase runs and collect_all returns.
ReadFailureContained ==
    unreadable # {} =>
        /\ Range(readLog) \cap unreadable = {}
        /\ \A k \in 1..Len(stack) :
              stack[k].at = "loop" => RealPath(stack[k].path) \notin unreadable
        /\ pc = "walk" => ENABLED ParseEnter \/ ENABLED SheetStep \/ ENABLED ParseReturn
        /\ pc = "libs" => ENABLED CollectSymbolLibraries
        /\ (HierarchyDone /\ Exists(main_sch)) =>
              /\ afterHier.collected = afterCore.collected \cup ReachableSheets
              /\ Range(readLog) = WalkedSheets
              /\ \A S \in unreadable :
                    Count(HierarchyWarnings, Warning("Error parsing", <<Name(S)>>)) =
                       (IF S = SchX \/ S \in ReachableSheets THEN 1 ELSE 0)
        /\ pc = "done" =>
              /\ phaseLog = <<"core", "hier", "libs">>
              /\ (libTable.exists /\ libTable.readable) => libQueue = <<>>

\* Witness of C14: b cannot be read; it is the first sheet of x, would name x,
\* and the walk went on to the second sheet of x.
ReadFailureWitness ==
    /\ pc = "done"
    /\ unreadable = {SchB}
    /\ content[SchX] = << <<"b.kicad_sch">>, <<"sub", "c.kicad_sch">> >>
    /\ content[SchB] = << <<"x.kicad_sch">> >>
    /\ readLog = <<SchX, SchC>>
    /\ skips = 0
    /\ {SchB, SchC} \subseteq collected_files
    /\ HierarchyWarnings = << Warning("Error parsing", <<"b.kicad_sch">>) >>

\* A second witness state of C14: after the failure the library phase
\* collected a library.
LibrariesAfterReadFailure ==
    /\ pc = "done"
    /\ unreadable = {SchB}
    /\ Warning("Error parsing", <<"b.kicad_sch">>) \in Range(warnings)
    /\ LibFoo \in collected_files
    /\ LibBar \in DOMAIN external_files

(***************************************************************************)
(* Claims about create_zip                                                 *)
(***************************************************************************)
\* C10: a failure of a write ends the loop and reaches the caller as an
\* exception, which Run reports as an error and never as success; no warning
\* is recorded; and whenever create_zip has ended, returning or raising, the
\* archive's handle is closed (or was never opened).
ZipFailurePropagates ==
    /\ zerror # "none" => zpc \in {"exit", "raised", "reported"}
    /\ zpc \in {"returned", "raised", "reported"} =>
          /\ zhandle # "open"
          /\ zhandle = "none" => zerror # "none" /\ zarchive = <<>>
    /\ zpc = "raised" => zerror \in ZipErrors
    /\ zpc = "returned" => zerror = "none" /\ zhandle = "closed"
    /\ zpc = "reported" =>
          /\ zmessage = "Export Complete" <=> zerror = "none"
          /\ zerror = "PermissionError" => zmessage = "Cannot write"
    /\ warnings = <<>>

\* Witness of C10: a write failed after an entry was written, and the
\* exception left create_zip.
ZipFailureWitness ==
    /\ zpc = "raised"
    /\ zerror = "OSError"
    /\ zarchive # <<>>
    /\ Len(zarchive) < Len(zfiles)
    /\ zhandle = "closed"

=============================================================================
